---- MODULE Spec2Model ----
(***************************************************************************)
(* Model of the review-insights feedback pipeline                          *)
(* (src/review-insights/src/business_insights.py).                         *)
(*                                                                         *)
(* Text is modelled as TLA+ strings handled character by character, so     *)
(* that str.strip, str.split, the substring tests and the regular          *)
(* expressions of the source are computed the way Python computes them.    *)
(***************************************************************************)
EXTENDS Integers, Sequences, FiniteSets, TLC

(***************************************************************************)
(* Character-level helpers (Python str / re primitives)                    *)
(***************************************************************************)

\* the i-th character of s, as a one-character string
Char(s, i) == SubSeq(s, i, i)

\* characters matched by \s and removed by str.strip()
IsSpace(c) == c \in {" ", "\n", "\t", "\r"}

\* characters matched by \d
IsDigit(c) == c \in {"0", "1", "2", "3", "4", "5", "6", "7", "8", "9"}

UpperChars == "ABCDEFGHIJKLMNOPQRSTUVWXYZ"

LowerChars == "abcdefghijklmnopqrstuvwxyz"

\* str.lower() on one character
LowerChar(c) ==
    IF \E i \in 1..Len(UpperChars) : Char(UpperChars, i) = c
    THEN Char(LowerChars, CHOOSE i \in 1..Len(UpperChars) : Char(UpperChars, i) = c)
    ELSE c

RECURSIVE ToLower(_)
\* str.lower()
ToLower(s) == IF s = "" THEN "" ELSE LowerChar(Head(s)) \o ToLower(Tail(s))

RECURSIVE LStrip(_)
LStrip(s) == IF s # "" /\ IsSpace(Head(s)) THEN LStrip(Tail(s)) ELSE s

RECURSIVE RStrip(_)
RStrip(s) ==
    IF s # "" /\ IsSpace(Char(s, Len(s))) THEN RStrip(SubSeq(s, 1, Len(s) - 1)) ELSE s

\* str.strip()
Strip(s) == RStrip(LStrip(s))

\* p occurs in s starting at position i
OccursAt(s, p, i) == i >= 1 /\ i + Len(p) - 1 <= Len(s) /\ SubSeq(s, i, i + Len(p) - 1) = p

\* p occurs in s at some position >= from  (Python: p in s[from-1:])
ContainsFrom(s, p, from) == \E i \in from..(Len(s) - Len(p) + 1) : OccursAt(s, p, i)

\* Python: p in s
Contains(s, p) == ContainsFrom(s, p, 1)

RECURSIVE SplitLines(_)
\* str.split('\n')
SplitLines(s) ==
    IF ~Contains(s, "\n") THEN <<s>>
    ELSE LET nl == CHOOSE i \in 1..Len(s) :
                       /\ Char(s, i) = "\n"
                       /\ \A j \in 1..(i - 1) : Char(s, j) # "\n"
         IN <<SubSeq(s, 1, nl - 1)>> \o SplitLines(SubSeq(s, nl + 1, Len(s)))

RECURSIVE JoinLines(_)
\* '\n'.join(lines)
JoinLines(lines) ==
    IF lines = <<>> THEN ""
    ELSE IF Len(lines) = 1 THEN lines[1]
    ELSE lines[1] \o "\n" \o JoinLines(Tail(lines))

RECURSIVE DigitRun(_, _)
\* number of consecutive digits of s starting at position i
DigitRun(s, i) == IF i <= Len(s) /\ IsDigit(Char(s, i)) THEN 1 + DigitRun(s, i + 1) ELSE 0

\* length of the match of ^\d+\. at the start of s, 0 when there is none
OrdinalLen(s) ==
    LET d == DigitRun(s, 1)
    IN IF d >= 1 /\ Char(s, d + 1) = "." THEN d + 1 ELSE 0

\* re.match(r'^\d+\.', s)
MatchesOrdinal(s) == OrdinalLen(s) > 0

\* re.sub(r'^\d+\.\s*', '', s)
StripOrdinal(s) ==
    IF MatchesOrdinal(s) THEN LStrip(SubSeq(s, OrdinalLen(s) + 1, Len(s))) ELSE s

RECURSIVE StripParens(_)
\* re.sub(r'\(.*?\)', '', s): each '(' up to the nearest following ')' is removed
StripParens(s) ==
    IF s = "" THEN ""
    ELSE IF Head(s) = "(" /\ Contains(Tail(s), ")")
         THEN LET close == CHOOSE i \in 2..Len(s) :
                               /\ Char(s, i) = ")"
                               /\ \A j \in 2..(i - 1) : Char(s, j) # ")"
              IN StripParens(SubSeq(s, close + 1, Len(s)))
         ELSE Head(s) \o StripParens(Tail(s))

RECURSIVE CollapseSpaces(_)
\* re.sub(r'\s+', ' ', s)
CollapseSpaces(s) ==
    IF s = "" THEN ""
    ELSE IF IsSpace(Head(s)) THEN " " \o CollapseSpaces(LStrip(s))
    ELSE Head(s) \o CollapseSpaces(Tail(s))

(***************************************************************************)
(* Cleaner: clean_feedback                                                 *)
(***************************************************************************)

allowed_categories == <<"Food Quality", "Service", "Cleanliness", "Value", "Ambiance">>

skip_phrases ==
    <<"not mentioned", "not explicitly", "not specified",
      "implied", "not discussed", "none", "n/a",
      "can be considered", "however", "since",
      "although", "note:", "the review">>

\* any(phrase in line.lower() for phrase in skip_phrases)
HasSkipPhrase(line) ==
    LET low == ToLower(line)
    IN \E k \in 1..Len(skip_phrases) : Contains(low, skip_phrases[k])

\* the has_valid_category loop: some allowed category is a substring of line
HasValidCategory(line) ==
    \E k \in 1..Len(allowed_categories) : Contains(line, allowed_categories[k])

\* the four `continue` filters of the loop, on the stripped line
SurvivesFilters(line) ==
    /\ line # ""
    /\ ~HasSkipPhrase(line)
    /\ MatchesOrdinal(line)
    /\ HasValidCategory(line)

\* the two re.sub calls that tidy a surviving line
TidyLine(line) == Strip(CollapseSpaces(StripParens(line)))

RECURSIVE ValidPoints(_)
\* the loop over lines: valid_points in append order
ValidPoints(lines) ==
    IF lines = <<>> THEN <<>>
    ELSE LET line == Strip(Head(lines))
         IN IF SurvivesFilters(line)
            THEN <<TidyLine(line)>> \o ValidPoints(Tail(lines))
            ELSE ValidPoints(Tail(lines))

\* valid_points[:n]
Take(seq, n) == SubSeq(seq, 1, IF Len(seq) < n THEN Len(seq) ELSE n)

\* clean_feedback without the fallback to the original text
clean_feedback_no_fallback(feedback_text) ==
    JoinLines(Take(ValidPoints(SplitLines(Strip(feedback_text))), 4))

\* clean_feedback keeping five points instead of four
clean_feedback_cap5(feedback_text) ==
    LET lines == SplitLines(Strip(feedback_text))
        result == Take(ValidPoints(lines), 5)
    IN IF Len(result) < 2 THEN feedback_text ELSE JoinLines(result)

clean_feedback(feedback_text) ==
    LET lines == SplitLines(Strip(feedback_text))
        result == Take(ValidPoints(lines), 4)
    IN IF Len(result) < 2 THEN feedback_text ELSE JoinLines(result)

(***************************************************************************)
(* Standardizer: standardize_feedback                                      *)
(***************************************************************************)

\* The rule table in dict insertion order.  A rule  r'X:.*?(a|b|c.*d)'  is   
\* the prefix "x:" and its alternatives, each a sequence of parts that must 
\* occur in order (a.*b has two parts); matching is on the lower-cased line 
\* because of re.IGNORECASE.
standardizations ==
    << [prefix |-> "service:", label |-> "Service: speed",
        alts |-> << <<"slow">>, <<"wait">>, <<"delay">>, <<"took", "long">>,
                    <<"forever">>, <<"responsiveness">>, <<"speed">> >>],
       [prefix |-> "service:", label |-> "Service: friendliness",
        alts |-> << <<"friendly">>, <<"rude">>, <<"attitude">>, <<"interaction">> >>],
       [prefix |-> "service:", label |-> "Service: attentiveness",
        alts |-> << <<"attentive">>, <<"attention">>, <<"check">> >>],
       [prefix |-> "service:", label |-> "Service: professionalism",
        alts |-> << <<"professional">>, <<"accommodation">>, <<"handling">> >>],
       [prefix |-> "food quality:", label |-> "Food Quality: temperature",
        alts |-> << <<"cold">>, <<"warm">>, <<"hot">>, <<"temperature">> >>],
       [prefix |-> "food quality:", label |-> "Food Quality: taste",
        alts |-> << <<"delicious">>, <<"taste">>, <<"flavor">>, <<"yummy">> >>],
       [prefix |-> "food quality:", label |-> "Food Quality: freshness",
        alts |-> << <<"fresh">>, <<"stale">> >>],
       [prefix |-> "food quality:", label |-> "Food Quality: portion size",
        alts |-> << <<"portion">>, <<"size">>, <<"amount">> >>],
       [prefix |-> "food quality:", label |-> "Food Quality: variety",
        alts |-> << <<"variety">>, <<"options">>, <<"selection">> >>],
       [prefix |-> "food quality:", label |-> "Food Quality: presentation",
        alts |-> << <<"presentation">>, <<"plating">>, <<"appearance">> >>],
       [prefix |-> "value:", label |-> "Value: pricing",
        alts |-> << <<"expensive">>, <<"pricey">>, <<"cheap">>, <<"cost">>,
                    <<"price">>, <<"pricing">> >>],
       [prefix |-> "value:", label |-> "Value: quality for cost",
        alts |-> << <<"worth">>, <<"money">>, <<"value">> >>],
       [prefix |-> "ambiance:", label |-> "Ambiance: noise level",
        alts |-> << <<"loud">>, <<"quiet">>, <<"noise">> >>],
       [prefix |-> "ambiance:", label |-> "Ambiance: decor",
        alts |-> << <<"decor">>, <<"decoration">>, <<"aesthetic">> >>],
       [prefix |-> "ambiance:", label |-> "Ambiance: comfort",
        alts |-> << <<"comfort">>, <<"cozy">>, <<"space">> >>],
       [prefix |-> "ambiance:", label |-> "Ambiance: atmosphere",
        alts |-> << <<"atmosphere">>, <<"vibe">>, <<"ambiance">> >>],
       [prefix |-> "ambiance:", label |-> "Ambiance: lighting",
        alts |-> << <<"light">>, <<"lighting">>, <<"bright">>, <<"dark">> >>],
       [prefix |-> "cleanliness:", label |-> "Cleanliness: overall hygiene",
        alts |-> << <<"clean">>, <<"dirty">>, <<"hygiene">>, <<"sanitary">> >>] >>

RECURSIVE PartsFrom(_, _, _)
\* the parts occur in low in order, without overlap, the first at or after from
PartsFrom(low, parts, from) ==
    IF parts = <<>> THEN TRUE
    ELSE \E i \in from..(Len(low) - Len(Head(parts)) + 1) :
            /\ OccursAt(low, Head(parts), i)
            /\ PartsFrom(low, Tail(parts), i + Len(Head(parts)))

\* re.search(pattern, line, re.IGNORECASE) for one rule of the table
RuleMatches(rule, line) ==
    LET low == ToLower(line)
    IN \E i \in 1..Len(low) :
          /\ OccursAt(low, rule.prefix, i)
          /\ \E a \in 1..Len(rule.alts) :
                PartsFrom(low, rule.alts[a], i + Len(rule.prefix))

\* index of the rule the inner loop breaks on, 0 when no rule matches
FirstRule(line) ==
    IF \E r \in 1..Len(standardizations) : RuleMatches(standardizations[r], line)
    THEN CHOOSE r \in 1..Len(standardizations) :
            /\ RuleMatches(standardizations[r], line)
            /\ \A q \in 1..(r - 1) : ~RuleMatches(standardizations[q], line)
    ELSE 0

\* f"{len(standardized_lines) + 1}. {content}"
Numbered(n, content) == ToString(n) \o ". " \o content

RECURSIVE StandardizeLines(_, _)
\* the loop over lines, acc being standardized_lines so far
StandardizeLines(lines, acc) ==
    IF lines = <<>> THEN acc
    ELSE LET line == Head(lines)
             r == FirstRule(line)
             content == StripOrdinal(line)
         IN IF Strip(line) = "" THEN StandardizeLines(Tail(lines), acc)
            ELSE IF r # 0
                 THEN StandardizeLines(Tail(lines),
                          Append(acc, Numbered(Len(acc) + 1, standardizations[r].label)))
            ELSE IF content # ""
                 THEN StandardizeLines(Tail(lines),
                          Append(acc, Numbered(Len(acc) + 1, content)))
            ELSE StandardizeLines(Tail(lines), acc)

standardize_feedback(feedback_text) ==
    JoinLines(StandardizeLines(SplitLines(feedback_text), <<>>))

(***************************************************************************)
(* Aggregator input: extract_feedback_categories                           *)
(***************************************************************************)

RECURSIVE ExtractLines(_)
ExtractLines(lines) ==
    IF lines = <<>> THEN <<>>
    ELSE LET line == StripOrdinal(Strip(Head(lines)))
         IN IF line # "" THEN <<line>> \o ExtractLines(Tail(lines))
            ELSE ExtractLines(Tail(lines))

extract_feedback_categories(feedback_text) == ExtractLines(SplitLines(feedback_text))

(***************************************************************************)
(* Aggregator and Recommender helpers                                      *)
(***************************************************************************)

\* number of occurrences of x in seq
CountOf(seq, x) == Cardinality({i \in 1..Len(seq) : seq[i] = x})

RECURSIVE Distinct(_)
\* the keys of Counter(seq), in first-insertion order
Distinct(seq) ==
    IF seq = <<>> THEN <<>>
    ELSE LET rest == Distinct(SubSeq(seq, 1, Len(seq) - 1))
             last == seq[Len(seq)]
         IN IF \E i \in 1..Len(rest) : rest[i] = last THEN rest ELSE Append(rest, last)

\* most_common with equal counts in reverse insertion order (an unstable sort)
most_common_last_seen(seq, k) ==
    LET keys == Distinct(seq)
        n == Len(keys)
        Before(a, b) == \/ CountOf(seq, keys[a]) > CountOf(seq, keys[b])
                        \/ CountOf(seq, keys[a]) = CountOf(seq, keys[b]) /\ a > b
        Rank(b) == Cardinality({a \in 1..n : Before(a, b)}) + 1
        sorted == [p \in 1..n |->
                     LET j == CHOOSE b \in 1..n : Rank(b) = p
                     IN <<keys[j], CountOf(seq, keys[j])>>]
    IN Take(sorted, k)

\* Counter(seq).most_common(k): pairs <<label, count>> by descending count,
\* equal counts in first-insertion order (the sort is stable), first k only
most_common(seq, k) ==
    LET keys == Distinct(seq)
        n == Len(keys)
        Before(a, b) == \/ CountOf(seq, keys[a]) > CountOf(seq, keys[b])
                        \/ CountOf(seq, keys[a]) = CountOf(seq, keys[b]) /\ a < b
        Rank(b) == Cardinality({a \in 1..n : Before(a, b)}) + 1
        sorted == [p \in 1..n |->
                     LET j == CHOOSE b \in 1..n : Rank(b) = p
                     IN <<keys[j], CountOf(seq, keys[j])>>]
    IN Take(sorted, k)

\* the priority step with inclusive thresholds (>= in place of >)
Priority_inclusive(count, total) ==
    IF count * 100 >= 20 * total THEN "HIGH"
    ELSE IF count * 100 >= 10 * total THEN "MEDIUM"
    ELSE "LOW"

\* priority = 'HIGH' if percentage > 20 else 'MEDIUM' if percentage > 10 else 'LOW'
\* with percentage = (count / total) * 100, compared exactly
Priority(count, total) ==
    IF count * 100 > 20 * total THEN "HIGH"
    ELSE IF count * 100 > 10 * total THEN "MEDIUM"
    ELSE "LOW"

Min(a, b) == IF a < b THEN a ELSE b

\* str.startswith
StartsWith(s, p) == OccursAt(s, p, 1)

\* the category_summary loop adding 1 per distinct label instead of its count
CategorySummary_per_label(labels) ==
    [k \in 1..Len(allowed_categories) |->
        Cardinality({labels[i] : i \in {j \in 1..Len(labels) :
            StartsWith(labels[j], allowed_categories[k])}})]

\* the category_summary loop: per main category, the summed counts of the
\* labels that start with it
CategorySummary(labels) ==
    [k \in 1..Len(allowed_categories) |->
        Cardinality({i \in 1..Len(labels) :
            /\ StartsWith(labels[i], allowed_categories[k])
            /\ \A q \in 1..(k - 1) : ~StartsWith(labels[i], allowed_categories[q])})]

(***************************************************************************)
(* Bounds and input domains                                                *)
(***************************************************************************)

\* a model response is built of at most MaxParts blocks
MaxParts == 2

\* a dataframe has at most MaxRows rows
MaxRows == 2

\* review counts and mention counts of the recommender-only specification
MaxReviews == 10

MaxCount == 12

\* responses of the ranking specification name at most MaxLabels distinct
\* free-text lines and repeat at most MaxExtra of them
MaxLabels == 11

MaxExtra == 2

\* pieces of generative-model output: well-formed lines, hedging, prose,
\* parenthetical asides, off-taxonomy lines, multi-line answers
Blocks ==
    { "1. Food Quality: temperature 2. Service: speed",
      "Not mentioned in this review.",
      "1. Service: rude and slow",
      "2. Food Quality: cold (on arrival)",
      "3. Value: worth the money",
      "1. (Service: slow)",
      "",
      "Ambiance was loud",
      "4. Staff: rude",
      "7. Cleanliness:   dirty tables",
      " 5. Ambiance: nice",
      "1. Service: slow\n2. Service: long wait\n3. Ambiance: vibe",
      "2. Food Quality: cold, Service: slow",
      "1. Service: professional, attentive" }

RECURSIVE TextsOf(_)
\* the texts made of exactly n blocks, one per line group
TextsOf(n) ==
    IF n = 1 THEN Blocks
    ELSE {t \o "\n" \o b : t \in TextsOf(n - 1), b \in Blocks}

\* the texts the pure pipeline is exercised on
Inputs == UNION {TextsOf(n) : n \in 1..MaxParts}

\* what the generative model may answer to an extraction prompt in a run
Responses ==
    { "1. Service: slow\n2. Service: long wait\n3. Ambiance: vibe",
      "Not mentioned in this review.",
      "1. Food Quality: cold\n2. Service: slow" }

\* what the generative model may answer to a recommendation prompt
Suggestions == {" Add staff at peak hours. "}

BusinessIds == {"b1", "b2"}

\* the name column is a function of the business
NameOf(b) == IF b = "b1" THEN "Cafe Roma" ELSE "Roma Grill"

\* a text cell: a string, or NaN (which an f-string formats as "nan")
Str(s) == [nan |-> FALSE, str |-> s]

NaN == [nan |-> TRUE, str |-> "nan"]

ReviewTexts == {Str("Food was cold and service slow"), Str(""), NaN}

Rows == {[business_id |-> b, name |-> NameOf(b), text |-> t] : b \in BusinessIds, t \in ReviewTexts}

RECURSIVE SeqsOf(_, _)
\* sequences over S of length exactly n
SeqsOf(S, n) ==
    IF n = 0 THEN {<<>>}
    ELSE {Append(s, x) : s \in SeqsOf(S, n - 1), x \in S}

DataFrames == UNION {SeqsOf(Rows, n) : n \in 0..MaxRows}

\* arguments the menu may pass
IdArgs == {"b1", "b2", "b9"}

NameArgs == {"roma", "cafe", "zzz", "", "c.fe", "("}

(***************************************************************************)
(* State                                                                   *)
(***************************************************************************)

VARIABLES
    df,                         \* the loaded dataframe: a sequence of rows
    pc,                         \* control point of the running function
    mode,                       \* "none", "search", "analyze" or "batch"
    business_reviews,           \* rows of the business being processed
    row_i,                      \* position of the loop in business_reviews
    raw_feedback,               \* analyze_review's return value
    cleaned_feedback,           \* clean_feedback's return value
    standardized_feedback,      \* standardize_feedback's return value
    categories,                 \* extract_feedback_categories' return value
    all_feedback_categories,    \* labels collected for the business so far
    processed_count,            \* reviews processed so far
    top_issues,                 \* category_counts.most_common(K)
    rec_i,                      \* position of the recommendation loop
    recommendations,            \* what the recommendation loop printed
    calls,                      \* generative-model calls made so far
    result,                     \* return value of the called function
    unique_businesses,          \* batch: business ids in first-seen order
    biz_i,                      \* batch: position in unique_businesses
    all_results,                \* batch: one summary row per business done
    output_csv                  \* batch: the file written, if any

vars == <<df, pc, mode, business_reviews, row_i, raw_feedback, cleaned_feedback,
          standardized_feedback, categories, all_feedback_categories,
          processed_count, top_issues, rec_i, recommendations, calls, result,
          unique_businesses, biz_i, all_results, output_csv>>

pipeline_vars == <<raw_feedback, cleaned_feedback, standardized_feedback, categories>>

batch_vars == <<unique_businesses, biz_i, all_results, output_csv>>

Unset == [kind |-> "unset"]

None == [kind |-> "None"]

NotWritten == [written |-> FALSE, rows |-> <<>>]

\* everything but df, pc, mode and the pipeline variables, before any call
Idle ==
    /\ business_reviews = <<>>
    /\ row_i = 0
    /\ all_feedback_categories = <<>>
    /\ processed_count = 0
    /\ top_issues = <<>>
    /\ rec_i = 0
    /\ recommendations = <<>>
    /\ calls = <<>>
    /\ result = Unset
    /\ unique_businesses = <<>>
    /\ biz_i = 0
    /\ all_results = <<>>
    /\ output_csv = NotWritten

\* the program after loading the CSV, before the menu choice is acted on
Init ==
    /\ df \in DataFrames
    /\ pc = "main"
    /\ mode = "none"
    /\ raw_feedback = ""
    /\ cleaned_feedback = ""
    /\ standardized_feedback = ""
    /\ categories = <<>>
    /\ Idle

(***************************************************************************)
(* Dataframe helpers                                                       *)
(***************************************************************************)

RECURSIVE SelectRows(_, _)
\* df[mask]: the rows whose entry in the boolean mask is TRUE, in order
SelectRows(rows, mask) ==
    IF rows = <<>> THEN <<>>
    ELSE IF Head(mask) THEN <<Head(rows)>> \o SelectRows(Tail(rows), Tail(mask))
    ELSE SelectRows(Tail(rows), Tail(mask))

RECURSIVE Balanced(_, _)
\* the parentheses of a pattern pair up, scanning from nesting depth
Balanced(pat, depth) ==
    IF pat = "" THEN depth = 0
    ELSE IF Head(pat) = "(" THEN Balanced(Tail(pat), depth + 1)
    ELSE IF Head(pat) = ")" THEN depth > 0 /\ Balanced(Tail(pat), depth - 1)
    ELSE Balanced(Tail(pat), depth)

\* str.contains has regex=True by default and compiles its pattern with
\* re.compile, which raises re.error on an unbalanced parenthesis; of the
\* metacharacters only "(", ")" and "." occur in the patterns modelled
CompileFails(pat) == ~Balanced(pat, 0)

RECURSIVE RegexBody(_)
\* a compiled pattern without its group marks: a group with no alternative
\* matches what its content matches
RegexBody(pat) ==
    IF pat = "" THEN ""
    ELSE IF Head(pat) \in {"(", ")"} THEN RegexBody(Tail(pat))
    ELSE Head(pat) \o RegexBody(Tail(pat))

RECURSIVE RegexAt(_, _)
\* the pattern matches a prefix of text; "." matches any character but a newline
RegexAt(text, pat) ==
    IF pat = "" THEN TRUE
    ELSE IF text = "" THEN FALSE
    ELSE /\ \/ Head(pat) = "." /\ Head(text) # "\n"
            \/ Head(pat) = Head(text)
         /\ RegexAt(Tail(text), Tail(pat))

\* pattern.search(text) is not None
RegexSearch(text, pat) ==
    \E i \in 1..(Len(text) + 1) : RegexAt(SubSeq(text, i, Len(text)), pat)

\* df['name'].str.contains(term, case=False, na=False) on one row, for a
\* term that compiles; case=False is re.IGNORECASE
NameContains(row, term) == RegexSearch(ToLower(row.name), RegexBody(ToLower(term)))

\* df[df['business_id'] == b]
ReviewsOf(b) == SelectRows(df, [i \in 1..Len(df) |-> df[i].business_id = b])

\* df[df['name'].str.contains(term, case=False, na=False)]
RowsNamed(term) == SelectRows(df, [i \in 1..Len(df) |-> NameContains(df[i], term)])

\* what ollama.generate did: returned response['response'], or raised
Returned(response) == [raised |-> FALSE, response |-> response]

Raised == [raised |-> TRUE, response |-> ""]

\* the generative-model call made by analyze_review, with its outcome
ExtractorCallOf(review_text, outcome) ==
    [fn |-> "analyze_review", review_text |-> review_text, outcome |-> outcome]

\* the generative-model call made by generate_business_improvement
RecommenderCallOf(issue, mention_count, total_reviews, outcome) ==
    [fn |-> "generate_business_improvement", issue |-> issue,
     mention_count |-> mention_count, total_reviews |-> total_reviews,
     outcome |-> outcome]

(***************************************************************************)
(* search_businesses                                                       *)
(***************************************************************************)

search_businesses(search_term) ==
    /\ pc = "main"
    /\ mode' = "search"
    /\ IF CompileFails(search_term)
       THEN /\ pc' = "raised"
            /\ UNCHANGED result
       ELSE /\ LET hits == RowsNamed(search_term)
                   matches == Distinct([i \in 1..Len(hits) |->
                                           <<hits[i].name, hits[i].business_id>>])
               IN result' = IF Len(matches) = 0 THEN None
                            ELSE [kind |-> "matches", rows |-> matches]
            /\ pc' = "done"
    /\ UNCHANGED <<df, business_reviews, row_i, pipeline_vars, all_feedback_categories,
                   processed_count, top_issues, rec_i, recommendations, calls, batch_vars>>

(***************************************************************************)
(* analyze_business_reviews                                                *)
(***************************************************************************)

\* the filter at the head of analyze_business_reviews; "" is a missing or
\* empty argument (both are falsy)
FilterReviews(business_id, business_name) ==
    IF business_id # "" THEN ReviewsOf(business_id)
    ELSE RowsNamed(business_name)

\* entry of analyze_business_reviews up to the start of the review loop
StartAnalysis(business_id, business_name) ==
    /\ pc = "main"
    /\ mode' = "analyze"
    /\ IF business_id = "" /\ business_name = ""
       THEN /\ result' = None
            /\ pc' = "done"
            /\ UNCHANGED <<business_reviews, row_i>>
       ELSE IF business_id = "" /\ CompileFails(business_name)
       THEN /\ pc' = "raised"
            /\ UNCHANGED <<result, business_reviews, row_i>>
       ELSE LET found == FilterReviews(business_id, business_name)
            IN IF Len(found) = 0
               THEN /\ result' = None
                    /\ pc' = "done"
                    /\ UNCHANGED <<business_reviews, row_i>>
               ELSE /\ business_reviews' = found
                    /\ row_i' = 1
                    /\ pc' = "extract"
                    /\ UNCHANGED result
    /\ UNCHANGED <<df, pipeline_vars, all_feedback_categories, processed_count,
                   top_issues, rec_i, recommendations, calls, batch_vars>>

\* analyze_review: one generative-model call, whatever the review text is
analyze_review(response) ==
    /\ pc = "extract"
    /\ calls' = Append(calls, ExtractorCallOf(business_reviews[row_i].text, Returned(response)))
    /\ raw_feedback' = response
    /\ pc' = "clean"
    /\ UNCHANGED <<df, mode, business_reviews, row_i, cleaned_feedback,
                   standardized_feedback, categories, all_feedback_categories,
                   processed_count, top_issues, rec_i, recommendations, result,
                   batch_vars>>

\* analyze_review with the failure of ollama.generate caught and the call retried
analyze_review_raises_retried ==
    /\ pc = "extract"
    /\ calls' = Append(calls, ExtractorCallOf(business_reviews[row_i].text, Raised))
    /\ UNCHANGED <<df, pc, mode, business_reviews, row_i, pipeline_vars,
                   all_feedback_categories, processed_count, top_issues, rec_i,
                   recommendations, result, batch_vars>>

\* analyze_review when ollama.generate raises: nothing catches it
analyze_review_raises ==
    /\ pc = "extract"
    /\ calls' = Append(calls, ExtractorCallOf(business_reviews[row_i].text, Raised))
    /\ pc' = "raised"
    /\ UNCHANGED <<df, mode, business_reviews, row_i, pipeline_vars,
                   all_feedback_categories, processed_count, top_issues, rec_i,
                   recommendations, result, batch_vars>>

CleanStep ==
    /\ pc = "clean"
    /\ cleaned_feedback' = clean_feedback(raw_feedback)
    /\ pc' = "standardize"
    /\ UNCHANGED <<df, mode, business_reviews, row_i, raw_feedback,
                   standardized_feedback, categories, all_feedback_categories,
                   processed_count, top_issues, rec_i, recommendations, calls,
                   result, batch_vars>>

StandardizeStep ==
    /\ pc = "standardize"
    /\ standardized_feedback' = standardize_feedback(cleaned_feedback)
    /\ pc' = "categories"
    /\ UNCHANGED <<df, mode, business_reviews, row_i, raw_feedback, cleaned_feedback,
                   categories, all_feedback_categories, processed_count, top_issues,
                   rec_i, recommendations, calls, result, batch_vars>>

ExtractStep ==
    /\ pc = "categories"
    /\ categories' = extract_feedback_categories(standardized_feedback)
    /\ pc' = "collect"
    /\ UNCHANGED <<df, mode, business_reviews, row_i, raw_feedback, cleaned_feedback,
                   standardized_feedback, all_feedback_categories, processed_count,
                   top_issues, rec_i, recommendations, calls, result, batch_vars>>

\* all_feedback_categories.extend(categories) and the step to the next row
Collect ==
    /\ pc = "collect"
    /\ all_feedback_categories' = all_feedback_categories \o categories
    /\ processed_count' = IF mode = "analyze" THEN processed_count + 1 ELSE processed_count
    /\ row_i' = row_i + 1
    /\ pc' = IF row_i < Len(business_reviews) THEN "extract" ELSE "count"
    /\ UNCHANGED <<df, mode, business_reviews, pipeline_vars, top_issues, rec_i,
                   recommendations, calls, result, batch_vars>>

\* the ranking and recommendation loop entered from inside the review loop,
\* before the review in hand is collected
CountIssues_inside_loop ==
    /\ pc \in {"collect", "count"}
    /\ mode = "analyze"
    /\ top_issues' = most_common(all_feedback_categories, 10)
    /\ rec_i' = 1
    /\ pc' = "recommend"
    /\ UNCHANGED <<df, mode, business_reviews, row_i, pipeline_vars,
                   all_feedback_categories, processed_count, recommendations, calls,
                   result, batch_vars>>

\* category_counts = Counter(...); top_issues = category_counts.most_common(10)
CountIssues ==
    /\ pc = "count"
    /\ mode = "analyze"
    /\ top_issues' = most_common(all_feedback_categories, 10)
    /\ rec_i' = 1
    /\ pc' = "recommend"
    /\ UNCHANGED <<df, mode, business_reviews, row_i, pipeline_vars,
                   all_feedback_categories, processed_count, recommendations, calls,
                   result, batch_vars>>

\* the recommendation loop running over all of top_issues instead of top_issues[:5]
Recommend_top10(suggestion) ==
    /\ pc = "recommend"
    /\ rec_i <= Len(top_issues)
    /\ LET issue == top_issues[rec_i][1]
           count == top_issues[rec_i][2]
           total == Len(business_reviews)
       IN /\ calls' = Append(calls, RecommenderCallOf(issue, count, total, Returned(suggestion)))
          /\ recommendations' = Append(recommendations,
                 [issue |-> issue, count |-> count, total |-> total,
                  priority |-> Priority(count, total),
                  suggestion |-> Strip(suggestion)])
    /\ rec_i' = rec_i + 1
    /\ UNCHANGED <<df, pc, mode, business_reviews, row_i, pipeline_vars,
                   all_feedback_categories, processed_count, top_issues, result,
                   batch_vars>>

\* one turn of the loop over top_issues[:5]
Recommend(suggestion) ==
    /\ pc = "recommend"
    /\ rec_i <= Min(5, Len(top_issues))
    /\ LET issue == top_issues[rec_i][1]
           count == top_issues[rec_i][2]
           total == Len(business_reviews)
       IN /\ calls' = Append(calls, RecommenderCallOf(issue, count, total, Returned(suggestion)))
          /\ recommendations' = Append(recommendations,
                 [issue |-> issue, count |-> count, total |-> total,
                  priority |-> Priority(count, total),
                  suggestion |-> Strip(suggestion)])
    /\ rec_i' = rec_i + 1
    /\ UNCHANGED <<df, pc, mode, business_reviews, row_i, pipeline_vars,
                   all_feedback_categories, processed_count, top_issues, result,
                   batch_vars>>

\* generate_business_improvement when ollama.generate raises
Recommend_raises ==
    /\ pc = "recommend"
    /\ rec_i <= Min(5, Len(top_issues))
    /\ calls' = Append(calls, RecommenderCallOf(top_issues[rec_i][1], top_issues[rec_i][2],
                                                Len(business_reviews), Raised))
    /\ pc' = "raised"
    /\ UNCHANGED <<df, mode, business_reviews, row_i, pipeline_vars,
                   all_feedback_categories, processed_count, top_issues, rec_i,
                   recommendations, result, batch_vars>>

\* the category breakdown and the returned dict
ReturnSummary ==
    /\ pc = "recommend"
    /\ rec_i > Min(5, Len(top_issues))
    /\ result' = [kind |-> "summary",
                  total_reviews |-> Len(business_reviews),
                  top_issues |-> top_issues,
                  category_summary |-> CategorySummary(all_feedback_categories)]
    /\ pc' = "done"
    /\ UNCHANGED <<df, mode, business_reviews, row_i, pipeline_vars,
                   all_feedback_categories, processed_count, top_issues, rec_i,
                   recommendations, calls, batch_vars>>

(***************************************************************************)
(* process_all_businesses                                                  *)
(***************************************************************************)

\* df['business_id'].unique()
UniqueIds == Distinct([i \in 1..Len(df) |-> df[i].business_id])

StartBatch ==
    /\ pc = "main"
    /\ mode' = "batch"
    /\ unique_businesses' = UniqueIds
    /\ IF UniqueIds = <<>>
       THEN /\ pc' = "write_csv"
            /\ UNCHANGED <<biz_i, business_reviews, row_i>>
       ELSE /\ biz_i' = 1
            /\ business_reviews' = ReviewsOf(UniqueIds[1])
            /\ row_i' = 1
            /\ pc' = "extract"
    /\ UNCHANGED <<df, pipeline_vars, all_feedback_categories, processed_count,
                   top_issues, rec_i, recommendations, calls, result, all_results,
                   output_csv>>

\* top_5[k][0] if len(top_5) > k else '', and the count likewise
IssueAt(top, k) == IF Len(top) >= k THEN top[k][1] ELSE ""

IssueCountAt(top, k) == IF Len(top) >= k THEN top[k][2] ELSE 0

\* the end of one turn of the loop over businesses
\* (the avg_rating column, a mean over a column the rows here do not carry,
\* is left out of the summary row)
SummarizeBusiness ==
    /\ pc = "count"
    /\ mode = "batch"
    /\ LET top_5 == most_common(all_feedback_categories, 5)
       IN /\ top_issues' = top_5
          /\ all_results' = Append(all_results,
                 [business_id |-> unique_businesses[biz_i],
                  business_name |-> business_reviews[1].name,
                  total_reviews |-> Len(business_reviews),
                  top_issue_1 |-> IssueAt(top_5, 1),
                  top_issue_1_count |-> IssueCountAt(top_5, 1),
                  top_issue_2 |-> IssueAt(top_5, 2),
                  top_issue_2_count |-> IssueCountAt(top_5, 2),
                  top_issue_3 |-> IssueAt(top_5, 3),
                  top_issue_3_count |-> IssueCountAt(top_5, 3)])
    /\ IF biz_i < Len(unique_businesses)
       THEN /\ biz_i' = biz_i + 1
            /\ business_reviews' = ReviewsOf(unique_businesses[biz_i + 1])
            /\ row_i' = 1
            /\ all_feedback_categories' = <<>>
            /\ pc' = "extract"
       ELSE /\ pc' = "write_csv"
            /\ UNCHANGED <<biz_i, business_reviews, row_i, all_feedback_categories>>
    /\ UNCHANGED <<df, mode, pipeline_vars, processed_count, rec_i, recommendations,
                   calls, result, unique_businesses, output_csv>>

\* results_df.to_csv(output_file)
WriteCsv ==
    /\ pc = "write_csv"
    /\ output_csv' = [written |-> TRUE, rows |-> all_results]
    /\ result' = None
    /\ pc' = "done"
    /\ UNCHANGED <<df, mode, business_reviews, row_i, pipeline_vars,
                   all_feedback_categories, processed_count, top_issues, rec_i,
                   recommendations, calls, unique_businesses, biz_i, all_results>>

(***************************************************************************)
(* Specifications                                                          *)
(***************************************************************************)

Next ==
    \/ \E term \in NameArgs : search_businesses(term)
    \/ \E b \in IdArgs : StartAnalysis(b, "")
    \/ \E n \in NameArgs : StartAnalysis("", n)
    \/ \E r \in Responses : analyze_review(r)
    \/ analyze_review_raises
    \/ CleanStep
    \/ StandardizeStep
    \/ ExtractStep
    \/ Collect
    \/ CountIssues
    \/ \E s \in Suggestions : Recommend(s)
    \/ Recommend_raises
    \/ ReturnSummary
    \/ StartBatch
    \/ SummarizeBusiness
    \/ WriteCsv

Spec == Init /\ [][Next]_vars

\* the pure pipeline on one text: the state after analyze_review returned it
InitText ==
    /\ df = <<>>
    /\ pc = "clean"
    /\ mode = "none"
    /\ raw_feedback \in Inputs
    /\ cleaned_feedback = ""
    /\ standardized_feedback = ""
    /\ categories = <<>>
    /\ Idle

NextText ==
    \/ CleanStep
    \/ StandardizeStep
    \/ ExtractStep

SpecText == InitText /\ [][NextText]_vars

\* a model response of k "Service" lines about slowness
SlowLines(k) == JoinLines([j \in 1..k |-> ToString(j) \o ". Service: slow"])

\* how many of c labels the i-th review contributes, four at most per review
ShareOf(i, c) ==
    LET left == c - 4 * (i - 1)
    IN IF left <= 0 THEN 0 ELSE Min(4, left)

\* the recommendation loop alone: a business of n reviews whose single
\* issue was counted c times (c <= 4n: the reviews' responses carry up to
\* four "Service" lines each), once the review loop and the count are done
InitRecommend ==
    \E n \in 1..MaxReviews, c \in 1..MaxCount :
        /\ c <= 4 * n
        /\ df = [i \in 1..n |-> [business_id |-> "b1", name |-> NameOf("b1"),
                                 text |-> Str("Food was cold and service slow")]]
        /\ business_reviews = df
        /\ pc = "recommend"
        /\ mode = "analyze"
        /\ raw_feedback = ""
        /\ cleaned_feedback = ""
        /\ standardized_feedback = ""
        /\ categories = <<>>
        /\ row_i = n + 1
        /\ all_feedback_categories = [i \in 1..c |-> "Service: speed"]
        /\ processed_count = n
        /\ top_issues = <<<<"Service: speed", c>>>>
        /\ rec_i = 1
        /\ recommendations = <<>>
        /\ calls = [i \in 1..n |-> ExtractorCallOf(df[i].text, Returned(SlowLines(ShareOf(i, c))))]
        /\ result = Unset
        /\ unique_businesses = <<>>
        /\ biz_i = 0
        /\ all_results = <<>>
        /\ output_csv = NotWritten

NextRecommend ==
    \/ \E s \in Suggestions : Recommend(s)
    \/ Recommend_raises
    \/ ReturnSummary

SpecRecommend == InitRecommend /\ [][NextRecommend]_vars

\* free-text lines no filter keeps and no rule rewrites: the Cleaner falls
\* back to the raw text and each line becomes a label of its own
RankLabels == <<"k", "b", "t", "e", "q", "a", "n", "g", "z", "d", "p", "c", "h", "m">>

\* the repeated lines of a response, as positions in RankLabels: up to
\* MaxExtra of the first m, in list order
Repeats(m) ==
    {y \in UNION {SeqsOf(1..m, e) : e \in 0..MaxExtra} :
        \A i \in 1..(Len(y) - 1) : y[i] <= y[i + 1]}

\* model responses listing the first n of these lines and then repeating some
RankResponses ==
    {JoinLines(SubSeq(RankLabels, 1, n) \o [i \in 1..Len(x) |-> RankLabels[x[i]]]) :
        <<n, x>> \in UNION {{<<m, y>> : y \in Repeats(m)} :
                              m \in 1..Min(MaxLabels, Len(RankLabels))}}

\* one business with one review, before the menu choice is acted on
InitRank ==
    /\ df = <<[business_id |-> "b1", name |-> NameOf("b1"),
               text |-> Str("Food was cold and service slow")]>>
    /\ pc = "main"
    /\ mode = "none"
    /\ raw_feedback = ""
    /\ cleaned_feedback = ""
    /\ standardized_feedback = ""
    /\ categories = <<>>
    /\ Idle

NextRank ==
    \/ StartAnalysis("b1", "")
    \/ StartBatch
    \/ \E r \in RankResponses : analyze_review(r)
    \/ CleanStep
    \/ StandardizeStep
    \/ ExtractStep
    \/ Collect
    \/ CountIssues
    \/ \E s \in Suggestions : Recommend(s)
    \/ ReturnSummary
    \/ SummarizeBusiness
    \/ WriteCsv

SpecRank == InitRank /\ [][NextRank]_vars

(***************************************************************************)
(* Properties                                                              *)
(***************************************************************************)

\* the lines of a text, an empty text having none
LinesOfText(s) == IF s = "" THEN <<>> ELSE SplitLines(s)

\* positions of the input lines that pass the Cleaner's four filters
SurvivorPositions(text) ==
    LET lines == SplitLines(Strip(text))
    IN {i \in 1..Len(lines) : SurvivesFilters(Strip(lines[i]))}

SurvivorCount(text) == Cardinality(SurvivorPositions(text))

\* the k-th line of the input that passes the filters, stripped
KthSurvivor(text, k) ==
    LET lines == SplitLines(Strip(text))
        pos == SurvivorPositions(text)
        i == CHOOSE p \in pos : Cardinality({q \in pos : q < p}) = k - 1
    IN Strip(lines[i])

Cleaned == pc \in {"standardize", "categories", "collect"}

Standardized == pc \in {"categories", "collect"}

Hedging == "Not mentioned in this review."

ExampleResponse == "1. Food Quality: temperature 2. Service: speed"

\* C1: when fewer than 2 lines of the input survive the Cleaner's filters,
\* clean_feedback returns the input text unchanged; the hedging-only input
\* has no surviving line and comes back unchanged.
C1_FallbackReturnsOriginal ==
    Cleaned =>
        /\ SurvivorCount(raw_feedback) < 2 => cleaned_feedback = raw_feedback
        /\ raw_feedback = Hedging =>
              SurvivorCount(raw_feedback) = 0 /\ cleaned_feedback = Hedging

C1_Witness ==
    /\ pc = "standardize"
    /\ raw_feedback = Hedging
    /\ cleaned_feedback = Hedging

\* C2 as claimed: the output of clean_feedback always has 0 or 2 to 4 lines
\* and every line of it is a numbered line.
C2_Original ==
    Cleaned =>
        LET out == LinesOfText(cleaned_feedback)
        IN /\ Len(out) \in {0, 2, 3, 4}
           /\ \A k \in 1..Len(out) : MatchesOrdinal(out[k])

\* C2 amended: the output of clean_feedback is the input text unchanged when
\* fewer than 2 lines survive the filters; otherwise it has between 2 and 4
\* lines, each a numbered line, and they are the first 4 surviving lines at
\* most, tidied, in input order.
C2_FallbackOrTwoToFour ==
    Cleaned =>
        LET out == LinesOfText(cleaned_feedback)
            n == SurvivorCount(raw_feedback)
        IN IF n < 2 THEN cleaned_feedback = raw_feedback
           ELSE /\ Len(out) \in {2, 3, 4}
                /\ Len(out) = Min(4, n)
                /\ \A k \in 1..Len(out) :
                      /\ MatchesOrdinal(out[k])
                      /\ out[k] = TidyLine(KthSurvivor(raw_feedback, k))

C2_Witness ==
    /\ pc = "standardize"
    /\ SurvivorCount(raw_feedback) > 4
    /\ Len(LinesOfText(cleaned_feedback)) = 4

\* C3 as claimed: when the Cleaner keeps at least 2 lines, the Standardizer's
\* output has as many lines as the Cleaner's output, in the same order, and
\* its ordinals are 1, 2, ..., n.
C3_Original ==
    (Standardized /\ SurvivorCount(raw_feedback) >= 2) =>
        LET cl == LinesOfText(cleaned_feedback)
            out == LinesOfText(standardized_feedback)
        IN /\ Len(out) = Len(cl)
           /\ \A k \in 1..Len(out) :
                 /\ StartsWith(out[k], ToString(k) \o ". ")
                 /\ StripOrdinal(out[k]) = StripOrdinal(standardize_feedback(cl[k]))

\* C4 as claimed: standardize_feedback applied to its own output returns it
\* unchanged, and each canonical label of the rule table it produced, fed
\* back as a numbered line, maps to itself.
C4_Original ==
    Standardized =>
        LET out == LinesOfText(standardized_feedback)
        IN /\ standardize_feedback(standardized_feedback) = standardized_feedback
           /\ \A k \in 1..Len(out), r \in 1..Len(standardizations) :
                 StripOrdinal(out[k]) = standardizations[r].label =>
                     standardize_feedback(Numbered(1, standardizations[r].label))
                         = Numbered(1, standardizations[r].label)

\* the rule prefixes ("service:", ...) the line's own label starts with
OwnPrefixes(line) ==
    {standardizations[r].prefix : r \in
        {q \in 1..Len(standardizations) :
            StartsWith(ToLower(StripOrdinal(Strip(line))), standardizations[q].prefix)}}

\* C5 as claimed: a line that gets a canonical label gets the label of the
\* earliest matching rule of the line's own category, never a label of
\* another category.
C5_Original ==
    Standardized =>
        \A k \in 1..Len(LinesOfText(cleaned_feedback)) :
            LET line == LinesOfText(cleaned_feedback)[k]
                r == FirstRule(line)
            IN (r # 0 /\ OwnPrefixes(line) # {}) =>
                  /\ standardizations[r].prefix \in OwnPrefixes(line)
                  /\ \A q \in 1..(r - 1) :
                        standardizations[q].prefix \in OwnPrefixes(line)
                            => ~RuleMatches(standardizations[q], line)
                  /\ standardize_feedback(line) = Numbered(1, standardizations[r].label)

\* C6 as claimed: the response "1. Food Quality: temperature 2. Service: speed"
\* is cleaned and standardized to the two lines "1. Food Quality: temperature"
\* and "2. Service: speed".
C6_Original ==
    (Standardized /\ raw_feedback = ExampleResponse) =>
        standardized_feedback = "1. Food Quality: temperature\n2. Service: speed"

\* the labels the pipeline derives from one model response
LabelsOfResponse(response) ==
    extract_feedback_categories(standardize_feedback(clean_feedback(response)))

\* the number of reviews, among those an extractor call returned for, whose
\* labels include the given one
ReviewsMentioning(label) ==
    Cardinality({i \in 1..Len(calls) :
        /\ calls[i].fn = "analyze_review"
        /\ ~calls[i].outcome.raised
        /\ \E j \in 1..Len(LabelsOfResponse(calls[i].outcome.response)) :
              LabelsOfResponse(calls[i].outcome.response)[j] = label})

\* C7 as claimed: the mention count of each ranked issue is the number of the
\* business's reviews in which the label appears, and never exceeds the
\* business's review count, in analyze_business_reviews and in the rows of
\* process_all_businesses.
C7_Original ==
    /\ (mode = "analyze" /\ pc \in {"recommend", "done"}) =>
          \A k \in 1..Len(top_issues) :
              /\ top_issues[k][2] = ReviewsMentioning(top_issues[k][1])
              /\ top_issues[k][2] <= Len(business_reviews)
    /\ \A k \in 1..Len(all_results) :
          /\ all_results[k].top_issue_1_count <= all_results[k].total_reviews
          /\ all_results[k].top_issue_2_count <= all_results[k].total_reviews
          /\ all_results[k].top_issue_3_count <= all_results[k].total_reviews

\* C8: the priority of an issue is a step function of its share
\* count / total alone: HIGH above 20%, MEDIUM above 10% up to 20%, LOW up to
\* 10%; exactly 20% is MEDIUM, exactly 10% is LOW, 3 of 10 is HIGH.
C8_PriorityStep ==
    \A k \in 1..Len(recommendations) :
        LET r == recommendations[k]
        IN /\ (r.priority = "HIGH") = (r.count * 5 > r.total)
           /\ (r.priority = "MEDIUM") = (r.count * 5 <= r.total /\ r.count * 10 > r.total)
           /\ (r.priority = "LOW") = (r.count * 10 <= r.total)
           /\ (r.count = 3 /\ r.total = 10) => r.priority = "HIGH"
           /\ r.count * 5 = r.total => r.priority = "MEDIUM"
           /\ r.count * 10 = r.total => r.priority = "LOW"

C8_Witness ==
    \E k \in 1..Len(recommendations) :
        /\ recommendations[k].count * 5 = recommendations[k].total
        /\ recommendations[k].priority = "MEDIUM"

\* C9 as claimed: every label handed to the aggregator references one of
\* the five top-level categories.
C9_Original ==
    \A k \in 1..Len(all_feedback_categories) :
        HasValidCategory(all_feedback_categories[k])

\* a review text that is empty or NaN
Missing(text) == text.nan \/ text.str = ""

\* C10 as claimed: no generative-model call is made for a review whose text
\* is empty or NaN, and such a review contributes no feedback point.
C10_Original ==
    /\ \A k \in 1..Len(calls) :
          calls[k].fn = "analyze_review" => ~Missing(calls[k].review_text)
    /\ (pc = "collect" /\ Missing(business_reviews[row_i].text)) => categories = <<>>

\* a label whose top-level category the breakdown recognizes
Recognized(label) ==
    \E k \in 1..Len(allowed_categories) : StartsWith(label, allowed_categories[k])

RECURSIVE SumOf(_)
\* the sum of a sequence of numbers
SumOf(seq) == IF seq = <<>> THEN 0 ELSE Head(seq) + SumOf(Tail(seq))

SummaryReturned == mode = "analyze" /\ pc = "done" /\ result.kind = "summary"

\* C11: the five per-category totals of category_summary add up to the
\* number of collected labels, with multiplicity, that start with one of the
\* five category names; each such label is counted in exactly one category
\* and the other labels in none.
C11_CategoryTotals ==
    SummaryReturned =>
        /\ SumOf(result.category_summary)
              = Cardinality({i \in 1..Len(all_feedback_categories) :
                                Recognized(all_feedback_categories[i])})
        /\ \A k \in 1..Len(allowed_categories) :
              result.category_summary[k]
                  = Cardinality({i \in 1..Len(all_feedback_categories) :
                        StartsWith(all_feedback_categories[i], allowed_categories[k])})

C11_Witness ==
    /\ SummaryReturned
    /\ Len(all_feedback_categories) = 4
    /\ SumOf(result.category_summary) = 3
    /\ \E i \in 1..4 : ~Recognized(all_feedback_categories[i])

\* position of the first occurrence of label in labels
FirstSeen(labels, label) ==
    CHOOSE i \in 1..Len(labels) :
        labels[i] = label /\ \A j \in 1..(i - 1) : labels[j] # label

\* label a ranks before label b: more occurrences, or as many and seen first
RanksBefore(labels, a, b) ==
    \/ CountOf(labels, a) > CountOf(labels, b)
    \/ /\ CountOf(labels, a) = CountOf(labels, b)
       /\ FirstSeen(labels, a) < FirstSeen(labels, b)

\* top is the first K of the labels ranked by count, ties by first occurrence
RankedTopK(top, labels, K) ==
    LET distinct == {labels[i] : i \in 1..Len(labels)}
        chosen == {top[i][1] : i \in 1..Len(top)}
    IN /\ Len(top) = Min(K, Cardinality(distinct))
       /\ chosen \subseteq distinct
       /\ \A i \in 1..Len(top) : top[i][2] = CountOf(labels, top[i][1])
       /\ \A i, j \in 1..Len(top) : i < j => RanksBefore(labels, top[i][1], top[j][1])
       /\ \A a \in chosen, b \in distinct \ chosen : RanksBefore(labels, a, b)

\* C12: the ranked issue list is the top K labels by descending mention
\* count, K = 10 in analyze_business_reviews and K = 5 in
\* process_all_businesses, equal counts in first-insertion order.
C12_RankedTopK ==
    /\ (mode = "analyze" /\ pc \in {"recommend", "done"}) =>
          RankedTopK(top_issues, all_feedback_categories, 10)
    /\ (mode = "batch" /\ pc \in {"write_csv", "done"}) =>
          RankedTopK(top_issues, all_feedback_categories, 5)

C12_Witness ==
    /\ mode = "analyze"
    /\ pc = "recommend"
    /\ Len(top_issues) = 10
    /\ Cardinality({all_feedback_categories[i] : i \in 1..Len(all_feedback_categories)}) = 11
    /\ top_issues[1][1] # all_feedback_categories[1]
    /\ top_issues[1][2] = top_issues[2][2]
    /\ top_issues[2][2] > top_issues[3][2]

IsExtractorCall(c) == c.fn = "analyze_review"

IsRecommenderCall(c) == c.fn = "generate_business_improvement"

ExtractorCalls == SelectSeq(calls, IsExtractorCall)

RecommenderCalls == SelectSeq(calls, IsRecommenderCall)

RECURSIVE ReviewsThrough(_)
\* batch: the reviews of the first b businesses, business after business
ReviewsThrough(b) ==
    IF b = 0 THEN <<>>
    ELSE ReviewsThrough(b - 1) \o ReviewsOf(unique_businesses[b])

\* the reviews in the order the run is to process them, up to the business in hand
ReviewOrder == IF mode = "batch" THEN ReviewsThrough(biz_i) ELSE business_reviews

\* the review in hand has had its extractor call and is not yet collected
InHand ==
    \/ pc \in {"clean", "standardize", "categories", "collect"}
    \/ pc = "raised" /\ row_i <= Len(business_reviews)

\* reviews whose processing has begun
Started ==
    (IF mode = "batch" THEN Len(ReviewsThrough(biz_i - 1)) ELSE 0)
        + (row_i - 1) + (IF InHand THEN 1 ELSE 0)

\* the last review that was begun has been cleaned, standardized and split
LastReviewFinished ==
    /\ raw_feedback = ExtractorCalls[Len(ExtractorCalls)].outcome.response
    /\ cleaned_feedback = clean_feedback(raw_feedback)
    /\ standardized_feedback = standardize_feedback(cleaned_feedback)
    /\ categories = extract_feedback_categories(standardized_feedback)
    /\ row_i > 1 =>
          /\ Len(all_feedback_categories) >= Len(categories)
          /\ SubSeq(all_feedback_categories,
                    Len(all_feedback_categories) - Len(categories) + 1,
                    Len(all_feedback_categories)) = categories

\* C13: reviews are processed one at a time in dataframe order, each one
\* extracted, cleaned and standardized before the next extractor call; a
\* recommender call comes only after every review of the business has been
\* counted; in batch mode all reviews of a business come before any review
\* of the next business.
C13_ProcessingOrder ==
    /\ business_reviews = <<>> => calls = <<>>
    /\ (mode \in {"analyze", "batch"} /\ business_reviews # <<>>) =>
          /\ Len(ExtractorCalls) = Started
          /\ \A k \in 1..Len(ExtractorCalls) :
                ExtractorCalls[k].review_text = ReviewOrder[k].text
          /\ (pc = "extract" /\ Started > 0) => LastReviewFinished
          /\ RecommenderCalls # <<>> =>
                /\ mode = "analyze"
                /\ pc \in {"recommend", "done", "raised"}
                /\ row_i = Len(business_reviews) + 1
                /\ processed_count = Len(business_reviews)
                /\ top_issues = most_common(all_feedback_categories, 10)
                /\ calls = ExtractorCalls \o RecommenderCalls
                /\ Len(ExtractorCalls) = Len(business_reviews)

C13_Witness ==
    /\ mode = "analyze"
    /\ pc = "recommend"
    /\ Len(business_reviews) = 2
    /\ Len(ExtractorCalls) = 2
    /\ Len(RecommenderCalls) = 1
    /\ ExtractorCalls[1].outcome.response # ExtractorCalls[2].outcome.response

\* the distinct labels collected for the business in hand
DistinctLabels == {all_feedback_categories[i] : i \in 1..Len(all_feedback_categories)}

\* the k-th issue/count pair of a batch summary row
PairAt(row, k) ==
    CASE k = 1 -> <<row.top_issue_1, row.top_issue_1_count>>
      [] k = 2 -> <<row.top_issue_2, row.top_issue_2_count>>
      [] k = 3 -> <<row.top_issue_3, row.top_issue_3_count>>

\* the issue columns of a batch summary row
IssueColumns(row) == {f \in DOMAIN row : StartsWith(f, "top_issue_")}

\* C14: analyze_business_reviews calls the recommender once for each of the
\* top min(5, distinct labels) ranked issues, in rank order, and for no other
\* issue; process_all_businesses never calls it and keeps per business only
\* the top-3 issue/count pairs, padded with "" and 0.
C14_RecommenderBounded ==
    /\ mode = "analyze" =>
          /\ Len(RecommenderCalls) <= Min(5, Cardinality(DistinctLabels))
          /\ \A k \in 1..Len(RecommenderCalls) :
                /\ RecommenderCalls[k].issue = top_issues[k][1]
                /\ RecommenderCalls[k].mention_count = top_issues[k][2]
                /\ RecommenderCalls[k].total_reviews = Len(business_reviews)
          /\ \A j, k \in 1..Len(RecommenderCalls) :
                RecommenderCalls[j].issue = RecommenderCalls[k].issue => j = k
          /\ (pc = "done" /\ result.kind = "summary") =>
                Len(RecommenderCalls) = Min(5, Cardinality(DistinctLabels))
    /\ mode = "batch" =>
          /\ RecommenderCalls = <<>>
          /\ recommendations = <<>>
          /\ (pc \in {"write_csv", "done"} /\ all_results # <<>>) =>
                LET row == all_results[Len(all_results)]
                IN /\ IssueColumns(row) =
                         {"top_issue_1", "top_issue_1_count", "top_issue_2",
                          "top_issue_2_count", "top_issue_3", "top_issue_3_count"}
                   /\ \A k \in 1..3 :
                         PairAt(row, k) =
                             IF k <= Cardinality(DistinctLabels)
                             THEN <<top_issues[k][1], top_issues[k][2]>>
                             ELSE <<"", 0>>
          /\ output_csv.written => output_csv.rows = all_results

C14_Witness ==
    /\ mode = "analyze"
    /\ pc = "done"
    /\ result.kind = "summary"
    /\ Len(top_issues) = 10
    /\ Len(RecommenderCalls) = 5
    /\ top_issues[6][2] = top_issues[5][2]

\* term matches no row: no name in the dataframe has it as a substring,
\* whatever the case, and none is found by it as a pattern either
NoNameHas(term) ==
    \A i \in 1..Len(df) :
        /\ ~Contains(ToLower(df[i].name), ToLower(term))
        /\ CompileFails(term) \/ ~NameContains(df[i], term)

\* the lookup returned None without a model call and without raising
ReturnsNone == pc' = "done" /\ result' = None /\ calls' = <<>>

\* C15: a lookup by a name term or a business identifier that matches no
\* row returns None, makes no generative-model call and does not raise, in
\* search_businesses and in analyze_business_reviews alike.
C15_Original ==
    [][/\ \A term \in NameArgs :
             (search_businesses(term) /\ NoNameHas(term)) => ReturnsNone
       /\ \A name \in NameArgs :
             (StartAnalysis("", name) /\ NoNameHas(name)) => ReturnsNone
       /\ \A id \in IdArgs :
             (StartAnalysis(id, "") /\ ReviewsOf(id) = <<>>) => ReturnsNone]_vars

\* some generative-model call has failed
ModelFailed == \E k \in 1..Len(calls) : calls[k].outcome.raised

\* C16: a failed generative-model call is neither caught nor retried: every
\* review has exactly one extractor call, a failed call is the last call of
\* the run, the run ends there with no summary returned, and the batch CSV,
\* written once after the last business, is not written.
C16_FailurePropagates ==
    /\ \A k \in 1..Len(calls) :
          calls[k].outcome.raised => (k = Len(calls) /\ pc = "raised")
    /\ (mode \in {"analyze", "batch"} /\ business_reviews # <<>>) =>
          Len(ExtractorCalls) = Started
    /\ pc = "raised" =>
          /\ result = Unset
          /\ output_csv = NotWritten
          /\ mode = "batch" => Len(all_results) = biz_i - 1
    /\ ModelFailed =>
          /\ pc = "raised"
          /\ calls[Len(calls)].fn = "analyze_review" =>
                /\ row_i <= Len(business_reviews)
                /\ calls[Len(calls)].review_text = business_reviews[row_i].text
          /\ calls[Len(calls)].fn = "generate_business_improvement" =>
                calls[Len(calls)].issue = top_issues[rec_i][1]
    /\ output_csv.written =>
          /\ mode = "batch"
          /\ pc = "done"
          /\ ~ModelFailed
          /\ output_csv.rows = all_results
          /\ Len(all_results) = Len(unique_businesses)
          /\ Len(ExtractorCalls) = Len(df)

C16_Witness ==
    /\ mode = "batch"
    /\ pc = "raised"
    /\ biz_i = 2
    /\ Len(calls) = 2
    /\ calls[2].outcome.raised
    /\ ~calls[1].outcome.raised
    /\ Len(all_results) = 1
    /\ output_csv = NotWritten

====
